---------------------------- MODULE Spec2Model ----------------------------
(***************************************************************************)
(* The state synchronisation core of the tado_local integration:          *)
(* TadoDataCoordinator (custom_components/tado_local/coordinator.py), its *)
(* set-up and unload (custom_components/tado_local/__init__.py) and the   *)
(* thermostat entities that read and command it                           *)
(* (custom_components/tado_local/climate.py).                             *)
(*                                                                         *)
(* Every coroutine is cut at its await points: one action is the code     *)
(* that runs between two awaits of one task, which asyncio runs without   *)
(* interleaving.                                                          *)
(***************************************************************************)
EXTENDS Integers, Sequences, FiniteSets

(***************************************************************************)
(* Values                                                                  *)
(***************************************************************************)

\* Python's None, and a missing dict key as dict.get returns it.
None == -1
\* None where the other values are strings (a zone's name).
NoneS == "None"

\* Python truthiness of an id and of a name: None, 0 and "" are falsy.
TruthyId(v) == v # None /\ v # 0
TruthyName(s) == s # NoneS /\ s # ""

\* a or b on names and ids.
OrName(a, b) == IF TruthyName(a) THEN a ELSE b
OrId(a, b) == IF TruthyId(a) THEN a ELSE b

\* A zone's state dict; a key the dict lacks reads as None.
StateFields == {"cur_temp_c", "target_temp_c", "mode", "cur_heating"}
St(c, t, m, h) ==
    [cur_temp_c |-> c, target_temp_c |-> t, mode |-> m, cur_heating |-> h]
\* The default of event_data.get("state", {}).
EmptyState == St(None, None, None, None)

\* A zone dict of the table; temperatures are in tenths of a degree.
Zone(zid, tid, n, zn, s) ==
    [zone_id |-> zid, thermostat_id |-> tid, name |-> n, zone_name |-> zn,
     state |-> s]

(***************************************************************************)
(* What the controller sends: zone lists, poll responses, stream lines.   *)
(***************************************************************************)

\* The Lounge, as GET /zones lists it (id under zone_id, name under name).
ZLounge == Zone(1, None, "Lounge", NoneS, St(195, 210, 1, 40))
\* The Lounge once its target has been set to 22.0.
ZLounge22 == Zone(1, None, "Lounge", NoneS, St(195, 220, 1, 40))
\* The Kitchen, listed under the other two key names.
ZKitchen == Zone(None, 2, NoneS, "Kitchen", St(180, 200, 3, 0))

PollLists == { <<ZLounge>>, <<ZLounge22, ZKitchen>> }

\* A poll's outcome.  exc: the request or response.json() raised (connection
\* error, timeout, body that is no JSON).  Otherwise status and, for 200, the
\* parsed body: a bare list, a dict (with "zones", with "thermostats" or with
\* neither), or another JSON value.
Resp(exc, status, shape, lst, hz, ht) ==
    [exc |-> exc, status |-> status, shape |-> shape, list |-> lst,
     has_zones |-> hz, has_thermostats |-> ht]
NoResp == Resp(FALSE, 0, "none", <<>>, FALSE, FALSE)
RespException == Resp(TRUE, 0, "none", <<>>, FALSE, FALSE)
RespStatus500 == Resp(FALSE, 500, "none", <<>>, FALSE, FALSE)
RespList(l) == Resp(FALSE, 200, "list", l, FALSE, FALSE)
RespZones(l) == Resp(FALSE, 200, "dict", l, TRUE, FALSE)
RespThermostats(l) == Resp(FALSE, 200, "dict", l, FALSE, TRUE)
RespOtherDict == Resp(FALSE, 200, "dict", <<>>, FALSE, FALSE)
RespScalar == Resp(FALSE, 200, "scalar", <<>>, FALSE, FALSE)

Responses ==
    {RespException, RespStatus500, RespOtherDict, RespScalar}
    \cup {RespList(l) : l \in PollLists}
    \cup {RespZones(<<ZLounge>>), RespZones(<<>>),
          RespThermostats(<<ZLounge22, ZKitchen>>)}

\* A 200 response that carries a zone list in one of the three shapes.
IsZoneListResp(r) ==
    /\ ~r.exc
    /\ r.status = 200
    /\ \/ r.shape = "list"
       \/ r.shape = "dict" /\ (r.has_zones \/ r.has_thermostats)

\* A stream event: the JSON object of a data line.
Ev(type, zid, zn, s) == [type |-> type, zone_id |-> zid, zone_name |-> zn, state |-> s]
NoEv == Ev("none", None, NoneS, EmptyState)
EvKeepalive == Ev("keepalive", None, NoneS, EmptyState)
EvUnknown == Ev("config", None, NoneS, EmptyState)
\* {"type":"zone","zone_id":1,"state":{"mode":0,"cur_heating":0}}
EvLoungeOff == Ev("zone", 1, NoneS, St(None, None, 0, 0))
EvKitchenFull == Ev("zone", 2, "Kitchen", St(185, 200, 1, 30))
EvZoneNoId == Ev("zone", None, NoneS, St(None, None, 1, None))
\* The Lounge under a new name, in a mode the entity does not know.
EvLoungeRenamed == Ev("zone", 1, "Living room", St(200, 215, 2, 50))
EvDevKitchen == Ev("device", None, "Kitchen", St(None, None, 0, 0))
EvDevAttic == Ev("device", None, "Attic", St(170, None, None, None))
EvDevNoName == Ev("device", None, NoneS, St(None, None, None, 10))

\* The events of the stream in the coordinator's specification, and the wider
\* set the merge specification draws from.
Events == {EvKeepalive, EvUnknown, EvLoungeOff, EvKitchenFull, EvDevKitchen}
MergeEvents ==
    Events \cup {EvZoneNoId, EvLoungeRenamed, EvDevAttic, EvDevNoName}

\* A complete line of the stream, after line.strip().  blank: empty;
\* comment: starts with ":"; field: any other line without the "data: "
\* prefix; badjson: "data: " and text json.loads rejects; nondict: "data: "
\* and JSON that is no object; event: "data: " and a JSON object.
Line(kind, ev) == [kind |-> kind, ev |-> ev]
NoLine == Line("none", NoEv)
Lines ==
    {Line(k, NoEv) : k \in {"comment", "badjson"}}
    \cup {Line("event", e) : e \in Events}
MergeLines ==
    {Line(k, NoEv) : k \in {"blank", "comment", "field", "badjson", "nondict"}}
    \cup {Line("event", e) : e \in MergeEvents}

(***************************************************************************)
(* The merge of one stream event into the table (_process_sse_event).     *)
(***************************************************************************)

\* self.data before the first refresh has stored a list: None, written as a
\* table of one entry that no list of the controller holds.
NoData == <<Zone(None, None, "self.data is None", NoneS, EmptyState)>>
\* self.data or []
DataOrEmpty(d) == IF d = NoData THEN <<>> ELSE d

\* The index of the first TRUE of hit, 0 when there is none: the for loops
\* that break on their first match, hit[i] telling whether entry i matches.
FirstIndex(hit) ==
    IF \E i \in 1..Len(hit) : hit[i]
    THEN CHOOSE i \in 1..Len(hit) : hit[i] /\ \A j \in 1..(i - 1) : ~hit[j]
    ELSE 0

\* ZoneIdMatches that compares the zone_id key alone.
ZoneIdMatches_ZoneIdOnly(zone, zone_id) == zone.zone_id = zone_id

\* A zone event's match: either id key equals the event's zone_id.
ZoneIdMatches(zone, zone_id) ==
    zone.zone_id = zone_id \/ zone.thermostat_id = zone_id

\* UpdatedZone without the fall-back to the entry's names.
UpdatedZone_EventNameOnly(zone, ev) ==
    [zone_id |-> ev.zone_id,
     thermostat_id |-> ev.zone_id,
     name |-> ev.zone_name,
     zone_name |-> ev.zone_name,
     state |-> ev.state]

\* The dict a zone event writes over the entry it matched.
UpdatedZone(zone, ev) ==
    [zone_id |-> ev.zone_id,
     thermostat_id |-> ev.zone_id,
     name |-> OrName(ev.zone_name, zone.name),
     zone_name |-> OrName(ev.zone_name, zone.zone_name),
     state |-> ev.state]

\* The dict a zone event appends when it matched no entry.
AddedZone(ev) ==
    [zone_id |-> ev.zone_id,
     thermostat_id |-> ev.zone_id,
     name |-> ev.zone_name,
     zone_name |-> ev.zone_name,
     state |-> ev.state]

\* ApplyZoneEvent without updated = True: the entry is appended even after
\* a match was updated.
ApplyZoneEvent_UpdateAndAppend(cur, ev) ==
    LET Match(z) == ZoneIdMatches(z, ev.zone_id)
        i == FirstIndex([k \in 1..Len(cur) |-> Match(cur[k])])
    IN  IF i # 0
        THEN Append([cur EXCEPT ![i] = UpdatedZone(cur[i], ev)], AddedZone(ev))
        ELSE Append(cur, AddedZone(ev))

\* ApplyZoneEvent inserting an unmatched zone at the head of the list.
ApplyZoneEvent_Prepend(cur, ev) ==
    LET Match(z) == ZoneIdMatches(z, ev.zone_id)
        i == FirstIndex([k \in 1..Len(cur) |-> Match(cur[k])])
    IN  IF i # 0
        THEN [cur EXCEPT ![i] = UpdatedZone(cur[i], ev)]
        ELSE <<AddedZone(ev)>> \o cur

\* The zone branch: update the first matching entry, else append.
ApplyZoneEvent(cur, ev) ==
    LET Match(z) == ZoneIdMatches(z, ev.zone_id)
        i == FirstIndex([k \in 1..Len(cur) |-> Match(cur[k])])
    IN  IF i # 0
        THEN [cur EXCEPT ![i] = UpdatedZone(cur[i], ev)]
        ELSE Append(cur, AddedZone(ev))

\* A device event's match: either name key equals the event's zone_name.
ZoneNameMatches(zone, zone_name) ==
    zone.zone_name = zone_name \/ zone.name = zone_name

\* The device branch: replace the state of the first matching entry.
ApplyDeviceEvent(cur, ev) ==
    LET Match(z) == ZoneNameMatches(z, ev.zone_name)
        i == FirstIndex([k \in 1..Len(cur) |-> Match(cur[k])])
    IN  IF i # 0
        THEN [cur EXCEPT ![i].state = ev.state]
        ELSE cur

\* Whether _process_sse_event reaches async_set_updated_data for the event.
EventIsMerged(ev) == ev.type \in {"zone", "device"}

\* The table _process_sse_event hands to async_set_updated_data.
MergedTable(d, ev) ==
    LET current_data == DataOrEmpty(d)
    IN  IF ev.type = "zone" THEN ApplyZoneEvent(current_data, ev)
        ELSE ApplyDeviceEvent(current_data, ev)

\* EventNotifications without the early returns for keepalive and unknown
\* types.
EventNotifications_NoEarlyReturn(d, ev) ==
    <<IF EventIsMerged(ev) THEN MergedTable(d, ev) ELSE d>>

\* The tables broadcast to the listeners by the processing of one event.
EventNotifications(d, ev) ==
    IF EventIsMerged(ev) THEN <<MergedTable(d, ev)>> ELSE <<>>

\* _process_sse_event merging into a fresh list instead of a copy of
\* self.data.
_process_sse_event_NoBase(d, ev) ==
    IF EventIsMerged(ev) THEN MergedTable(<<>>, ev) ELSE d

\* self.data after _process_sse_event.
_process_sse_event(d, ev) ==
    IF EventIsMerged(ev) THEN MergedTable(d, ev) ELSE d

\* Whether a complete line reaches _process_sse_event without it raising: a
\* "data: " line whose payload json.loads accepts and that is a JSON object
\* (event_data.get raises on any other JSON value and the line is skipped).
LineIsProcessed(line) == line.kind = "event"

(***************************************************************************)
(* The value a poll returns (_async_update_data).                         *)
(***************************************************************************)

\* ExtractZones without the "thermostats" key.
ExtractZones_ZonesOnly(r) ==
    IF r.shape = "dict"
    THEN IF r.has_zones /\ r.list # <<>> THEN r.list ELSE <<>>
    ELSE IF r.shape = "list" THEN r.list
    ELSE <<>>

\* data.get("zones") or data.get("thermostats") or [] on a dict body, the
\* body itself when it is a list, [] for any other JSON value.
ExtractZones(r) ==
    IF r.shape = "dict"
    THEN IF r.has_zones /\ r.list # <<>> THEN r.list
         ELSE IF r.has_thermostats /\ r.list # <<>> THEN r.list
         ELSE <<>>
    ELSE IF r.shape = "list" THEN r.list
    ELSE <<>>

\* _async_update_data adding the polled zones to the table it has.
_async_update_data_Extend(d, r) ==
    IF r.exc \/ r.status # 200 THEN DataOrEmpty(d)
    ELSE DataOrEmpty(d) \o ExtractZones(r)

\* _async_update_data answering a failure with an empty list.
_async_update_data_EmptyOnFailure(d, r) ==
    IF r.exc \/ r.status # 200 THEN <<>>
    ELSE ExtractZones(r)

\* The return value of _async_update_data, given self.data at the moment the
\* response (or the exception) arrives.
_async_update_data(d, r) ==
    IF r.exc THEN DataOrEmpty(d)
    ELSE IF r.status # 200 THEN DataOrEmpty(d)
    ELSE ExtractZones(r)

(***************************************************************************)
(* The reconnect delay (_sse_loop).                                       *)
(***************************************************************************)

InitialRetryDelay == 5
MaxRetryDelay == 60
Min(a, b) == IF a < b THEN a ELSE b
\* NextRetryDelay growing by the initial delay instead of doubling.
NextRetryDelay_Linear(retry_delay) ==
    Min(retry_delay + InitialRetryDelay, MaxRetryDelay)
\* retry_delay = min(retry_delay * 2, max_retry_delay)
NextRetryDelay(retry_delay) == Min(retry_delay * 2, MaxRetryDelay)

(***************************************************************************)
(* The entities (climate.py).                                             *)
(***************************************************************************)

\* TadoZoneThermostat.__init__: self._id
EntityId(zone) == OrId(zone.thermostat_id, zone.zone_id)

\* TadoZoneThermostat.data: the first entry either of whose id keys is _id,
\* NoZone when there is none or the table is empty.
NoZone == Zone(None, None, NoneS, NoneS, EmptyState)
EntityData(d, id) ==
    LET cur == DataOrEmpty(d)
        Match(z) == z.thermostat_id = id \/ z.zone_id = id
        i == FirstIndex([k \in 1..Len(cur) |-> Match(cur[k])])
    IN  IF i # 0 THEN cur[i] ELSE NoZone
EntityHasData(d, id) ==
    LET cur == DataOrEmpty(d)
    IN  \E i \in 1..Len(cur) : cur[i].thermostat_id = id \/ cur[i].zone_id = id

\* hvac_mode without the AUTO branch.
hvac_mode_NoAuto(d, id) ==
    IF ~EntityHasData(d, id) THEN "off"
    ELSE IF EntityData(d, id).state.mode = 1 THEN "heat" ELSE "off"

\* TadoZoneThermostat.hvac_mode: OFF without data; state.get("mode", 0) is
\* 3 for AUTO, 1 for HEAT, anything else is OFF.
hvac_mode(d, id) ==
    IF ~EntityHasData(d, id) THEN "off"
    ELSE LET m == EntityData(d, id).state.mode
             mode == IF m = None THEN 0 ELSE m
         IN  IF mode = 3 THEN "auto"
             ELSE IF mode = 1 THEN "heat"
             ELSE "off"

\* TadoZoneThermostat.hvac_action: OFF when the mode is OFF, else HEATING
\* when state.get("cur_heating", 0) > 0, else IDLE.
hvac_action(d, id) ==
    IF hvac_mode(d, id) = "off" THEN "off"
    ELSE LET h == EntityData(d, id).state.cur_heating
             heating_request == IF h = None THEN 0 ELSE h
         IN  IF heating_request > 0 THEN "heating" ELSE "idle"

(***************************************************************************)
(* State                                                                   *)
(***************************************************************************)

\* The number of failed attempts counted since the reader loop started.
MaxFails == 6

VARIABLES
    data,               \* self.data: the table handed to the listeners
    _sse_running,       \* self._sse_running
    _sse_task,          \* self._sse_task and where _sse_loop is suspended
    cancel_requested,   \* _sse_task.cancel() was called, not yet delivered
    retry_delay,        \* the local retry_delay of _sse_loop
    fails,              \* the failed attempts since the loop started, while no
                        \* attempt of it has received HTTP 200 (0 afterwards)
    ever_streamed,      \* an attempt of this loop has received HTTP 200
    reached_streaming,  \* the latest attempt has received HTTP 200
    poll,               \* the refresh in flight, who asked for it, and whether
                        \* an event was merged since its request was sent
    setup,              \* where async_setup_entry / async_unload_entry are
    listener,           \* the EVENT_HOMEASSISTANT_STARTED listener
    entities,           \* the _id of every entity listening to the coordinator
    cmd,                \* the command in flight (async_set_temperature/_hvac_mode)
    shutdown,           \* where async_shutdown is
    stop_at,            \* where _sse_task was when async_shutdown was called
    last,               \* the step taken last, with its input
    notif,              \* the tables that step broadcast to the listeners
    content,            \* line decoder: the bytes of one connection's body
    pos,                \* line decoder: how many of them have arrived
    buffer,             \* line decoder: the local buffer of _connect_sse
    applied,            \* the payloads handed to _process_sse_event so far
    held                \* the list object a listener was handed: its value
                        \* then, its value now, and whether self.data is
                        \* still that object

coordVars == <<data, _sse_running, _sse_task, cancel_requested, retry_delay,
               fails, ever_streamed, reached_streaming, poll,
               setup, listener, entities, cmd, shutdown, stop_at, last, notif>>
decoderVars == <<content, pos, buffer, applied>>
auxVars == <<decoderVars, held>>
vars == <<coordVars, auxVars>>

sseVars == <<_sse_running, _sse_task, cancel_requested, retry_delay,
             fails, ever_streamed, reached_streaming>>
hostVars == <<setup, listener, entities, shutdown, stop_at>>

\* _sse_task is None ("none"), a task that has not run yet ("start"), a task
\* suspended in session.get ("connecting"), in the body iteration
\* ("streaming") or in asyncio.sleep ("sleeping"), or a finished task ("done").
TaskLive(t) == t \in {"start", "connecting", "streaming", "sleeping"}

\* The record of a step.  raced: the refresh that completed had an event merged
\* while it was in flight.
Step(act, raced) == [act |-> act, raced |-> raced]
Did(act) == Step(act, FALSE)

\* What a completed refresh is recorded as.
PollAct(r) == IF IsZoneListResp(r) THEN "poll_list" ELSE "poll_failed"

\* What a handled line is recorded as.
LineAct(line) ==
    IF line.kind \in {"badjson", "nondict"} THEN "sse_malformed"
    ELSE IF ~LineIsProcessed(line) THEN "sse_skipped"
    ELSE IF line.ev.type \in {"zone", "device", "keepalive"}
         THEN "sse_" \o line.ev.type
         ELSE "sse_unknown"

\* No list object has been handed to a listener yet.
NoSnapshot == [at_handover |-> <<>>, now |-> <<>>, is_current |-> FALSE]

PollIdle == [pc |-> "idle", raced |-> FALSE]
PollSent == [pc |-> "inflight", raced |-> FALSE]
NoCmd == [pc |-> "idle", ent |-> None, zone_id |-> None]

Init ==
    /\ data = NoData
    /\ _sse_running = FALSE
    /\ _sse_task = "none"
    /\ cancel_requested = FALSE
    /\ retry_delay = InitialRetryDelay
    /\ fails = 0
    /\ ever_streamed = FALSE
    /\ reached_streaming = FALSE
    /\ poll = PollIdle
    /\ setup = "new"
    /\ listener = "none"
    /\ entities = {}
    /\ cmd = NoCmd
    /\ shutdown = "no"
    /\ stop_at = "none"
    /\ last = Did("init")
    /\ notif = <<>>
    /\ content = <<>>
    /\ pos = 0
    /\ buffer = <<>>
    /\ applied = <<>>
    /\ held = NoSnapshot

(***************************************************************************)
(* The poller: DataUpdateCoordinator stores what _async_update_data       *)
(* returns in self.data and calls the listeners once.                     *)
(***************************************************************************)

\* async_setup_entry: async_config_entry_first_refresh sends GET /zones.
SetupFirstRefresh ==
    /\ setup = "new"
    /\ poll.pc = "idle"
    /\ setup' = "first_refresh"
    /\ poll' = PollSent
    /\ last' = Did("poll_start")
    /\ notif' = <<>>
    /\ UNCHANGED <<data, sseVars, listener, entities, cmd, shutdown, stop_at>>
    /\ UNCHANGED auxVars

\* update_interval: the periodic refresh, scheduled while there are listeners.
PollTimer ==
    /\ entities # {}
    /\ poll.pc = "idle"
    /\ poll' = PollSent
    /\ last' = Did("poll_start")
    /\ notif' = <<>>
    /\ UNCHANGED <<data, sseVars, hostVars, cmd>>
    /\ UNCHANGED auxVars

\* _async_update_data resumes with the response r (or the exception) and
\* returns; the refresh stores the value and updates the listeners.  A command
\* awaiting this refresh then returns.
PollDone(r) ==
    /\ poll.pc = "inflight"
    /\ data' = _async_update_data(data, r)
    /\ notif' = <<data'>>
    /\ last' = Step(PollAct(r), poll.raced)
    /\ poll' = PollIdle
    /\ setup' = IF setup = "first_refresh" THEN "refreshed" ELSE setup
    /\ cmd' = IF cmd.pc = "refreshing" THEN NoCmd ELSE cmd
    /\ UNCHANGED <<sseVars, listener, entities, shutdown, stop_at>>
    /\ UNCHANGED auxVars

(***************************************************************************)
(* Set-up and unload (__init__.py, climate.async_setup_entry).            *)
(***************************************************************************)

\* async_forward_entry_setups creates one entity per zone of the table, each a
\* listener of the coordinator; then _start_sse_after_setup registers the
\* start of the reader for EVENT_HOMEASSISTANT_STARTED.
SetupPlatform ==
    /\ setup = "refreshed"
    /\ entities' = {EntityId(DataOrEmpty(data)[i]) : i \in 1..Len(DataOrEmpty(data))}
    /\ listener' = "registered"
    /\ setup' = "ready"
    /\ last' = Did("setup_platform")
    /\ notif' = <<>>
    /\ UNCHANGED <<data, sseVars, poll, cmd, shutdown, stop_at>>
    /\ UNCHANGED auxVars

\* StartedTask without the test of the task it replaces.
StartedTask_Always(task) == "start"

\* The task _start_sse leaves in self._sse_task.
StartedTask(task) == IF task = "none" \/ task = "done" THEN "start" ELSE task

\* start_sse_on_ha_started: the listener fires once and calls _start_sse.
HaStarted ==
    /\ listener = "registered"
    /\ listener' = "fired"
    /\ _sse_running' = (IF _sse_task \in {"none", "done"} THEN TRUE ELSE _sse_running)
    /\ _sse_task' = StartedTask(_sse_task)
    /\ last' = Did("ha_started")
    /\ notif' = <<>>
    /\ UNCHANGED <<data, cancel_requested, retry_delay, fails, ever_streamed,
                   reached_streaming, poll, setup, entities,
                   cmd, shutdown, stop_at>>
    /\ UNCHANGED auxVars

\* async_unload_entry: async_unload_platforms removes the entities.
UnloadPlatforms ==
    /\ setup = "ready"
    /\ setup' = "unloading"
    /\ entities' = {}
    /\ last' = Did("unload_platforms")
    /\ notif' = <<>>
    /\ UNCHANGED <<data, sseVars, poll, listener, cmd,
                   shutdown, stop_at>>
    /\ UNCHANGED auxVars

(***************************************************************************)
(* The stream reader (_sse_loop, _connect_sse).                           *)
(***************************************************************************)

\* The failures counted after one more attempt ended in an exception.
CountFail(n, streamed) ==
    IF streamed THEN 0 ELSE IF n < MaxFails THEN n + 1 ELSE n

\* while self._sse_running: the loop enters _connect_sse, which sends the GET,
\* or ends.
LoopTop(running) == IF running THEN "connecting" ELSE "done"

\* The task runs for the first time: retry_delay = 5, then the loop.
SseLoopStart ==
    /\ _sse_task = "start"
    /\ ~cancel_requested
    /\ retry_delay' = InitialRetryDelay
    /\ fails' = 0
    /\ ever_streamed' = FALSE
    /\ reached_streaming' = FALSE
    /\ _sse_task' = LoopTop(_sse_running)
    /\ last' = Did("sse_start")
    /\ notif' = <<>>
    /\ UNCHANGED <<data, _sse_running, cancel_requested, poll,
                   hostVars, cmd>>
    /\ UNCHANGED auxVars

\* session.get answers 200: the body iteration starts with an empty buffer.
SseConnected ==
    /\ _sse_task = "connecting"
    /\ ~cancel_requested
    /\ _sse_task' = "streaming"
    /\ ever_streamed' = TRUE
    /\ reached_streaming' = TRUE
    /\ fails' = 0
    /\ last' = Did("sse_connected")
    /\ notif' = <<>>
    /\ UNCHANGED <<data, _sse_running, cancel_requested, retry_delay,
                   poll, hostVars, cmd>>
    /\ UNCHANGED auxVars

\* SseConnectFailed with the exception leaving _sse_loop: the task ends.
SseConnectFailed_Fatal ==
    /\ _sse_task = "connecting"
    /\ ~cancel_requested
    /\ _sse_task' = "done"
    /\ fails' = CountFail(fails, ever_streamed)
    /\ last' = Did("sse_connect_failed")
    /\ notif' = <<>>
    /\ UNCHANGED <<data, _sse_running, cancel_requested, retry_delay,
                   ever_streamed, reached_streaming, poll,
                   hostVars, cmd>>
    /\ UNCHANGED auxVars

\* session.get raises (connection error, timeout) or answers another status,
\* for which _connect_sse raises: _sse_loop starts asyncio.sleep(retry_delay).
SseConnectFailed ==
    /\ _sse_task = "connecting"
    /\ ~cancel_requested
    /\ _sse_task' = "sleeping"
    /\ fails' = CountFail(fails, ever_streamed)
    /\ last' = Did("sse_connect_failed")
    /\ notif' = <<>>
    /\ UNCHANGED <<data, _sse_running, cancel_requested, retry_delay,
                   ever_streamed, reached_streaming, poll,
                   hostVars, cmd>>
    /\ UNCHANGED auxVars

\* SseLine with a malformed payload raising out of the line loop: the
\* connection ends as on a read error.
SseLine_MalformedAborts(line) ==
    /\ _sse_task = "streaming"
    /\ ~cancel_requested
    /\ IF ~_sse_running
       THEN /\ _sse_task' = LoopTop(_sse_running)
            /\ retry_delay' = InitialRetryDelay
            /\ last' = Did("sse_break")
            /\ notif' = <<>>
            /\ UNCHANGED <<data, poll>>
       ELSE /\ data' = (IF LineIsProcessed(line)
                        THEN _process_sse_event(data, line.ev) ELSE data)
            /\ notif' = (IF LineIsProcessed(line)
                         THEN EventNotifications(data, line.ev) ELSE <<>>)
            /\ poll' = [poll EXCEPT !.raced =
                           \/ poll.raced
                           \/ /\ poll.pc = "inflight"
                              /\ LineIsProcessed(line)
                              /\ EventIsMerged(line.ev)]
            /\ last' = Did(LineAct(line))
            /\ _sse_task' = (IF line.kind \in {"badjson", "nondict"}
                             THEN "sleeping" ELSE _sse_task)
            /\ UNCHANGED retry_delay
    /\ UNCHANGED <<_sse_running, cancel_requested, fails, ever_streamed,
                   reached_streaming, hostVars, cmd>>

\* A chunk arrives that completes the line `line`: what it does to the
\* coordinator.  With _sse_running false the iteration breaks, _connect_sse
\* returns, retry_delay = 5 and the loop ends; otherwise the line is handled
\* and the iteration awaits the next chunk.
SseLine(line) ==
    /\ _sse_task = "streaming"
    /\ ~cancel_requested
    /\ IF ~_sse_running
       THEN /\ _sse_task' = LoopTop(_sse_running)
            /\ retry_delay' = InitialRetryDelay
            /\ last' = Did("sse_break")
            /\ notif' = <<>>
            /\ UNCHANGED <<data, poll>>
       ELSE /\ data' = (IF LineIsProcessed(line)
                        THEN _process_sse_event(data, line.ev) ELSE data)
            /\ notif' = (IF LineIsProcessed(line)
                         THEN EventNotifications(data, line.ev) ELSE <<>>)
            /\ poll' = [poll EXCEPT !.raced =
                           \/ poll.raced
                           \/ /\ poll.pc = "inflight"
                              /\ LineIsProcessed(line)
                              /\ EventIsMerged(line.ev)]
            /\ last' = Did(LineAct(line))
            /\ UNCHANGED <<_sse_task, retry_delay>>
    /\ UNCHANGED <<_sse_running, cancel_requested, fails, ever_streamed,
                   reached_streaming, hostVars, cmd>>

\* The same step where the stream is not followed byte by byte and no
\* listener's list object is tracked.
SseChunk(line) == SseLine(line) /\ UNCHANGED auxVars

\* The server closes the body: the iteration ends, _connect_sse returns,
\* retry_delay = 5 and the loop goes on at once.
SseClosed ==
    /\ _sse_task = "streaming"
    /\ ~cancel_requested
    /\ retry_delay' = InitialRetryDelay
    /\ _sse_task' = LoopTop(_sse_running)
    /\ reached_streaming' = (IF _sse_running THEN FALSE ELSE reached_streaming)
    /\ last' = Did("sse_closed")
    /\ notif' = <<>>
    /\ UNCHANGED <<data, _sse_running, cancel_requested, fails, ever_streamed,
                   poll, hostVars, cmd>>
    /\ UNCHANGED auxVars

\* Reading the body raises: _connect_sse re-raises and _sse_loop starts
\* asyncio.sleep(retry_delay).
SseReadError ==
    /\ _sse_task = "streaming"
    /\ ~cancel_requested
    /\ _sse_task' = "sleeping"
    /\ fails' = CountFail(fails, ever_streamed)
    /\ last' = Did("sse_read_error")
    /\ notif' = <<>>
    /\ UNCHANGED <<data, _sse_running, cancel_requested, retry_delay,
                   ever_streamed, reached_streaming, poll,
                   hostVars, cmd>>
    /\ UNCHANGED auxVars

\* asyncio.sleep(retry_delay) returns: the delay doubles up to the maximum,
\* then the loop goes on.
SseWake ==
    /\ _sse_task = "sleeping"
    /\ ~cancel_requested
    /\ retry_delay' = NextRetryDelay(retry_delay)
    /\ _sse_task' = LoopTop(_sse_running)
    /\ reached_streaming' = (IF _sse_running THEN FALSE ELSE reached_streaming)
    /\ last' = Did("sse_wake")
    /\ notif' = <<>>
    /\ UNCHANGED <<data, _sse_running, cancel_requested, fails, ever_streamed,
                   poll, hostVars, cmd>>
    /\ UNCHANGED auxVars

\* The task's next step after cancel(): CancelledError is thrown in at the
\* await (or before the first run) and the task ends.
SseCancelled ==
    /\ cancel_requested
    /\ TaskLive(_sse_task)
    /\ _sse_task' = "done"
    /\ cancel_requested' = FALSE
    /\ last' = Did("sse_cancelled")
    /\ notif' = <<>>
    /\ UNCHANGED <<data, _sse_running, retry_delay, fails, ever_streamed,
                   reached_streaming, poll, hostVars, cmd>>
    /\ UNCHANGED auxVars

(***************************************************************************)
(* async_shutdown, called by async_unload_entry once the platforms are    *)
(* unloaded.                                                              *)
(***************************************************************************)

\* async_shutdown without the await of the cancelled task.
async_shutdown_NoAwait ==
    /\ setup = "unloading"
    /\ shutdown = "no"
    /\ _sse_running' = FALSE
    /\ stop_at' = _sse_task
    /\ cancel_requested' = TaskLive(_sse_task)
    /\ shutdown' = "returned"
    /\ last' = Did("shutdown")
    /\ notif' = <<>>
    /\ UNCHANGED <<data, _sse_task, retry_delay, fails, ever_streamed,
                   reached_streaming, poll, setup, listener, entities, cmd>>
    /\ UNCHANGED auxVars

\* async_shutdown with the test of done() inverted: a live task is left alone.
async_shutdown_InvertedDone ==
    /\ setup = "unloading"
    /\ shutdown = "no"
    /\ _sse_running' = FALSE
    /\ stop_at' = _sse_task
    /\ cancel_requested' = FALSE
    /\ shutdown' = "returned"
    /\ last' = Did("shutdown")
    /\ notif' = <<>>
    /\ UNCHANGED <<data, _sse_task, retry_delay, fails, ever_streamed,
                   reached_streaming, poll, setup, listener, entities, cmd>>
    /\ UNCHANGED auxVars

\* self._sse_running = False; a task that is not done is cancelled and
\* awaited, otherwise the call returns at once.
async_shutdown ==
    /\ setup = "unloading"
    /\ shutdown = "no"
    /\ _sse_running' = FALSE
    /\ stop_at' = _sse_task
    /\ cancel_requested' = TaskLive(_sse_task)
    /\ shutdown' = (IF TaskLive(_sse_task) THEN "awaiting" ELSE "returned")
    /\ last' = Did("shutdown")
    /\ notif' = <<>>
    /\ UNCHANGED <<data, _sse_task, retry_delay, fails, ever_streamed,
                   reached_streaming, poll, setup, listener,
                   entities, cmd>>
    /\ UNCHANGED auxVars

\* await self._sse_task returns (its CancelledError is swallowed).
ShutdownReturn ==
    /\ shutdown = "awaiting"
    /\ _sse_task = "done"
    /\ shutdown' = "returned"
    /\ last' = Did("shutdown_return")
    /\ notif' = <<>>
    /\ UNCHANGED <<data, sseVars, poll, setup, listener,
                   entities, cmd, stop_at>>
    /\ UNCHANGED auxVars

(***************************************************************************)
(* Commands (TadoZoneThermostat.async_set_temperature / _hvac_mode).      *)
(***************************************************************************)

\* The entity e is asked to change its zone: self.data.get("zone_id") goes in
\* the URL and the POST is sent; without an entry for e, self.data is None
\* and the call raises.
CmdCall(e) ==
    /\ cmd.pc = "idle"
    /\ e \in entities
    /\ IF EntityHasData(data, e)
       THEN /\ cmd' = [pc |-> "posting", ent |-> e,
                       zone_id |-> EntityData(data, e).zone_id]
            /\ last' = Did("cmd_post")
       ELSE /\ cmd' = cmd
            /\ last' = Did("cmd_raised")
    /\ notif' = <<>>
    /\ UNCHANGED <<data, sseVars, poll, hostVars>>
    /\ UNCHANGED auxVars

\* The status the entity takes as the success of its POST.  The repository
\* holds two copies of the entity: custom_components/tado_local/climate.py
\* tests resp.status != 200, climate.py tests resp.status == 100.
SuccessStatuses == {200, 100}

\* CmdPosted that settles and refreshes whatever the status.
CmdPosted_AlwaysRefresh(success, status) ==
    /\ cmd.pc = "posting"
    /\ cmd' = [pc |-> "settle", ent |-> None, zone_id |-> None]
    /\ last' = Did("cmd_posted")
    /\ notif' = <<>>
    /\ UNCHANGED <<data, sseVars, poll, hostVars>>
    /\ UNCHANGED auxVars

\* The POST answers: the success status starts asyncio.sleep(1), any other
\* status is logged and the command returns.
CmdPosted(success, status) ==
    /\ cmd.pc = "posting"
    /\ cmd' = IF status = success
              THEN [pc |-> "settle", ent |-> None, zone_id |-> None]
              ELSE NoCmd
    /\ last' = Did("cmd_posted")
    /\ notif' = <<>>
    /\ UNCHANGED <<data, sseVars, poll, hostVars>>
    /\ UNCHANGED auxVars

\* asyncio.sleep(1) returns: async_request_refresh starts a refresh and the
\* command awaits it.
CmdSettled ==
    /\ cmd.pc = "settle"
    /\ poll.pc = "idle"
    /\ cmd' = [cmd EXCEPT !.pc = "refreshing"]
    /\ poll' = PollSent
    /\ last' = Did("poll_start")
    /\ notif' = <<>>
    /\ UNCHANGED <<data, sseVars, hostVars>>
    /\ UNCHANGED auxVars

(***************************************************************************)
(* The coordinator's specification.                                       *)
(***************************************************************************)

EntityIds == {1, 2}
PostStatuses == {200, 500}

Next ==
    \/ SetupFirstRefresh
    \/ PollTimer
    \/ \E r \in Responses : PollDone(r)
    \/ SetupPlatform
    \/ HaStarted
    \/ UnloadPlatforms
    \/ SseLoopStart
    \/ SseConnected
    \/ SseConnectFailed
    \/ \E line \in Lines : SseChunk(line)
    \/ SseClosed
    \/ SseReadError
    \/ SseWake
    \/ SseCancelled
    \/ async_shutdown
    \/ ShutdownReturn
    \/ \E e \in EntityIds : CmdCall(e)
    \/ \E success \in SuccessStatuses, status \in PostStatuses :
           CmdPosted(success, status)
    \/ CmdSettled

Spec == Init /\ [][Next]_vars

\* _start_sse called directly, any number of times, once the first refresh
\* has stored a list (the repository's other copy of the coordinator calls it
\* at the end of async_config_entry_first_refresh).
_start_sse ==
    /\ setup \notin {"new", "first_refresh"}
    /\ _sse_running' = (IF _sse_task \in {"none", "done"} THEN TRUE ELSE _sse_running)
    /\ _sse_task' = StartedTask(_sse_task)
    /\ last' = Did("start_sse")
    /\ notif' = <<>>
    /\ UNCHANGED <<data, cancel_requested, retry_delay, fails, ever_streamed,
                   reached_streaming, poll, hostVars, cmd>>
    /\ UNCHANGED auxVars

StartNext ==
    \/ SetupFirstRefresh
    \/ \E r \in Responses : PollDone(r)
    \/ SetupPlatform
    \/ HaStarted
    \/ _start_sse
    \/ UnloadPlatforms
    \/ SseLoopStart
    \/ SseConnected
    \/ SseConnectFailed
    \/ \E line \in Lines : SseChunk(line)
    \/ SseClosed
    \/ SseReadError
    \/ SseWake
    \/ SseCancelled
    \/ async_shutdown
    \/ ShutdownReturn

\* The coordinator where start is called directly as well as by the
\* host-started listener: set-up, the reader task and unload, without the
\* periodic poll and the commands.
StartSpec == Init /\ [][StartNext]_vars

\* The coordinator with its scheduling: the event loop runs a task that was
\* created and wakes a sleep whose time has come, and a controller that is
\* asked again and again answers HTTP 200 in the end.
LiveSpec ==
    /\ Spec
    /\ WF_vars(SseLoopStart)
    /\ WF_vars(SseWake)
    /\ SF_vars(SseConnected)

(***************************************************************************)
(* The merge specification: the reader is streaming and the poller polls; *)
(* the stream carries every kind of line and event.                       *)
(***************************************************************************)

\* The coordinator once set-up has stored the first list, created the
\* entities, and the reader has received HTTP 200.
Streaming(first_list) ==
    /\ data = first_list
    /\ _sse_running = TRUE
    /\ _sse_task = "streaming"
    /\ cancel_requested = FALSE
    /\ retry_delay = InitialRetryDelay
    /\ fails = 0
    /\ ever_streamed = TRUE
    /\ reached_streaming = TRUE
    /\ poll = PollIdle
    /\ setup = "ready"
    /\ listener = "fired"
    /\ entities = {EntityId(first_list[i]) : i \in 1..Len(first_list)}
    /\ cmd = NoCmd
    /\ shutdown = "no"
    /\ stop_at = "none"
    /\ last = Did("sse_connected")
    /\ notif = <<>>

MergeInit ==
    /\ \E l \in PollLists : Streaming(l)
    /\ content = <<>>
    /\ pos = 0
    /\ buffer = <<>>
    /\ applied = <<>>
    /\ held = NoSnapshot

MergeNext ==
    \/ \E line \in MergeLines : SseChunk(line)
    \/ PollTimer
    \/ \E r \in Responses : PollDone(r)

MergeSpec == MergeInit /\ [][MergeNext]_vars

(***************************************************************************)
(* The line decoder of _connect_sse, byte by byte.  A byte is written as  *)
(* a string: "LF", "CR" and "SP" are newline, carriage return and space,  *)
(* "C3" "BC" the two bytes of one non-ASCII character, written "u-uml"    *)
(* once decoded.                                                          *)
(***************************************************************************)

\* chunk.decode('utf-8'): the text, or ok = FALSE for UnicodeDecodeError (a
\* lead byte without its continuation byte, a continuation byte without its
\* lead byte).
RECURSIVE Utf8Decode(_)
Utf8Decode(bytes) ==
    IF bytes = <<>> THEN [ok |-> TRUE, text |-> <<>>]
    ELSE IF Head(bytes) = "BC" THEN [ok |-> FALSE, text |-> <<>>]
    ELSE IF Head(bytes) = "C3"
         THEN IF Len(bytes) >= 2 /\ bytes[2] = "BC"
              THEN LET rest == Utf8Decode(SubSeq(bytes, 3, Len(bytes)))
                   IN  [ok |-> rest.ok, text |-> <<"u-uml">> \o rest.text]
              ELSE [ok |-> FALSE, text |-> <<>>]
    ELSE LET rest == Utf8Decode(Tail(bytes))
         IN  [ok |-> rest.ok, text |-> <<Head(bytes)>> \o rest.text]

Whitespace == {"SP", "CR", "LF"}

\* str.strip()
RECURSIVE LStrip(_)
LStrip(t) == IF t # <<>> /\ Head(t) \in Whitespace THEN LStrip(Tail(t)) ELSE t
RECURSIVE RStrip(_)
RStrip(t) ==
    IF t # <<>> /\ t[Len(t)] \in Whitespace
    THEN RStrip(SubSeq(t, 1, Len(t) - 1)) ELSE t
Strip(t) == RStrip(LStrip(t))

\* str.startswith
StartsWith(t, prefix) ==
    Len(t) >= Len(prefix) /\ SubSeq(t, 1, Len(prefix)) = prefix

DataPrefix == <<"d", "a", "t", "a", ":", "SP">>

\* json.loads on the text after the prefix: an object, written "{" keys "}"
\* with keys drawn from "k" and "u-uml", parses to its keys; any other text
\* raises JSONDecodeError.
JsonLoads(t) ==
    IF /\ Len(t) >= 2
       /\ t[1] = "{"
       /\ t[Len(t)] = "}"
       /\ \A i \in 2..(Len(t) - 1) : t[i] \in {"k", "u-uml"}
    THEN [ok |-> TRUE, value |-> SubSeq(t, 2, Len(t) - 1)]
    ELSE [ok |-> FALSE, value |-> <<>>]

\* The body of the loop over the complete lines for one stripped line: the
\* events handed to _process_sse_event after it.
HandleLine(done, line) ==
    IF line = <<>> \/ StartsWith(line, <<":">>) THEN done
    ELSE IF StartsWith(line, DataPrefix)
         THEN LET event_data == JsonLoads(SubSeq(line, Len(DataPrefix) + 1, Len(line)))
              IN  IF event_data.ok THEN Append(done, event_data.value) ELSE done
         ELSE done

\* The position of the first "LF" of t, 0 when it has none.
FirstNewline(t) ==
    IF \E i \in 1..Len(t) : t[i] = "LF"
    THEN CHOOSE i \in 1..Len(t) : t[i] = "LF" /\ \A j \in 1..(i - 1) : t[j] # "LF"
    ELSE 0

\* while '\n' in buffer: line, buffer = buffer.split('\n', 1); ...
RECURSIVE DrainLines(_, _)
DrainLines(buf, done) ==
    LET n == FirstNewline(buf)
    IN  IF n = 0 THEN [buffer |-> buf, applied |-> done]
        ELSE DrainLines(SubSeq(buf, n + 1, Len(buf)),
                        HandleLine(done, Strip(SubSeq(buf, 1, n - 1))))

\* One iteration of the loop over the chunks: a chunk that does not decode is
\* skipped, otherwise its text joins the buffer and the complete lines are
\* handled.
FeedChunk(buf, done, chunk) ==
    LET decoded == Utf8Decode(chunk)
    IN  IF ~decoded.ok THEN [buffer |-> buf, applied |-> done]
        ELSE DrainLines(buf \o decoded.text, done)

\* The lines a body is made of here.
ByteLines ==
    { DataPrefix \o <<"{", "k", "}", "LF">>,
      DataPrefix \o <<"{", "C3", "BC", "}", "LF">>,
      <<":", "k", "LF">>,
      <<"CR", "LF">>,
      DataPrefix \o <<"{", "k", "}">> }
\* The number of lines of a body.
MaxBodyLines == 2
RECURSIVE Bodies(_)
Bodies(n) ==
    IF n = 0 THEN {<<>>}
    ELSE Bodies(n - 1) \cup {b \o l : b \in Bodies(n - 1), l \in ByteLines}

DecoderInit ==
    /\ Streaming(<<>>)
    /\ content \in Bodies(MaxBodyLines) \ {<<>>}
    /\ pos = 0
    /\ buffer = <<>>
    /\ applied = <<>>
    /\ held = NoSnapshot

\* iter_any yields the next n bytes of the body.
DeliverChunk(n) ==
    /\ pos + n <= Len(content)
    /\ LET fed == FeedChunk(buffer, applied, SubSeq(content, pos + 1, pos + n))
       IN  /\ buffer' = fed.buffer
           /\ applied' = fed.applied
    /\ pos' = pos + n
    /\ UNCHANGED <<content, coordVars, held>>

DecoderNext == \E n \in 1..(Len(content) - pos) : DeliverChunk(n)

DecoderSpec == DecoderInit /\ [][DecoderNext]_vars

(***************************************************************************)
(* One connection of the stream, with the events it has handed to         *)
(* _process_sse_event so far and a listener that keeps the list object it *)
(* read from coordinator.data.                                            *)
(***************************************************************************)

MaxEvents == 3

\* The list the connection starts from.
StreamFirstList == <<ZLounge>>

StreamInit ==
    /\ Streaming(StreamFirstList)
    /\ content = <<>>
    /\ pos = 0
    /\ buffer = <<>>
    /\ applied = <<>>
    /\ held = NoSnapshot

\* A reader of coordinator.data keeps the list object it was given.
TakeSnapshot ==
    /\ held' = [at_handover |-> data, now |-> data, is_current |-> TRUE]
    /\ UNCHANGED <<coordVars, decoderVars>>

\* HeldAfterMerge without copy.deepcopy: the merge writes into the list
\* object self.data already is.
HeldAfterMerge_NoCopy(h, merged) ==
    IF h.is_current THEN [h EXCEPT !.now = merged] ELSE h

\* The kept list object after a merge: the merge wrote into a deep copy, and
\* async_set_updated_data made the copy the new self.data.
HeldAfterMerge(h, merged) == [h EXCEPT !.is_current = FALSE]

\* One complete line of the connection.
StreamLine(line) ==
    /\ Len(applied) < MaxEvents
    /\ SseLine(line)
    /\ applied' = (IF LineIsProcessed(line)
                   THEN Append(applied, line.ev) ELSE applied)
    /\ held' = (IF LineIsProcessed(line) /\ EventIsMerged(line.ev)
                THEN HeldAfterMerge(held, _process_sse_event(data, line.ev))
                ELSE held)
    /\ UNCHANGED <<content, pos, buffer>>

StreamNext ==
    \/ \E line \in MergeLines : StreamLine(line)
    \/ TakeSnapshot

StreamSpec == StreamInit /\ [][StreamNext]_vars

(***************************************************************************)
(* Properties                                                              *)
(***************************************************************************)

\* The steps of the reader task, as `last` records them.
ReaderActs ==
    {"sse_start", "sse_connected", "sse_connect_failed", "sse_break",
     "sse_zone", "sse_device", "sse_keepalive", "sse_unknown", "sse_skipped",
     "sse_malformed",
     "sse_closed", "sse_read_error", "sse_wake", "sse_cancelled"}

\* The index of the entry of table d that a zone event with this id matches.
HeldAt(d, zone_id) ==
    LET Match(z) == ZoneIdMatches(z, zone_id)
    IN  FirstIndex([k \in 1..Len(DataOrEmpty(d)) |-> Match(DataOrEmpty(d)[k])])

\* C1: a zone event applied to a table that holds the zone leaves every
\* state field that the event's state payload omits at the value it had
\* before the event.
C1_OmittedStateFieldsKept ==
    [][\A line \in MergeLines :
          ( /\ SseChunk(line)
            /\ LineIsProcessed(line)
            /\ line.ev.type = "zone"
            /\ line.ev.zone_id # None
            /\ HeldAt(data, line.ev.zone_id) # 0 )
          => LET i == HeldAt(data, line.ev.zone_id)
             IN  \A f \in StateFields :
                     line.ev.state[f] = None
                     => data'[i].state[f] = data[i].state[f]]_vars

\* C2: when a poll that received HTTP 200 with a zone list completes, the
\* table is exactly the polled list, whatever events were merged before the
\* poll or while it was in flight.
C2_PollReplacesTable ==
    [][\A r \in Responses :
          (PollDone(r) /\ IsZoneListResp(r)) => data' = r.list]_vars

\* A poll of the Lounge alone has completed after an event was merged while
\* it was in flight, and the table is the polled list.
C2_Witness ==
    /\ last.act = "poll_list"
    /\ last.raced
    /\ data = <<ZLounge>>

\* C3: when a poll fails (exception, status other than 200, or a 200 body
\* that holds no zone list) the table after the poll is the table before it.
C3_FailedPollKeepsTable ==
    [][\A r \in Responses :
          (PollDone(r) /\ ~IsZoneListResp(r)) => data' = DataOrEmpty(data)]_vars

\* C4: once async_shutdown has returned, no step changes the table and no
\* step notifies the listeners.
C4_QuietAfterShutdown ==
    [][shutdown = "returned" => (data' = data /\ notif' = <<>>)]_vars

\* C5: async_shutdown called while the reader is connecting or streaming:
\* from the call on the reader takes no step but the delivery of the
\* cancellation (no event applied, no connection attempt), and when
\* async_shutdown has returned the task has ended.
C5_StopWhileConnected ==
    stop_at \in {"connecting", "streaming"}
    => /\ _sse_task \in {stop_at, "done"}
       /\ last.act \in ReaderActs => last.act = "sse_cancelled"
       /\ shutdown = "returned" => (_sse_task = "done" /\ ~cancel_requested)

\* async_shutdown was called on a streaming reader and has returned.
C5_Witness ==
    /\ stop_at = "streaming"
    /\ shutdown = "returned"
    /\ _sse_task = "done"

\* C6: async_shutdown called while _sse_loop sleeps its backoff delay: the
\* sleep does not run to its end (the reader's only step is the delivery of
\* the cancellation), no connection attempt follows, and when async_shutdown
\* has returned the task has ended.
C6_StopWhileSleeping ==
    stop_at = "sleeping"
    => /\ _sse_task \in {"sleeping", "done"}
       /\ last.act \in ReaderActs => last.act = "sse_cancelled"
       /\ shutdown = "returned" => (_sse_task = "done" /\ ~cancel_requested)

\* async_shutdown was called on a sleeping reader and has returned.
C6_Witness ==
    /\ stop_at = "sleeping"
    /\ shutdown = "returned"
    /\ _sse_task = "done"

\* The delay after the n-th consecutive failure: 5, 10, 20, 40, 60, 60, ...
BackoffDelays == <<5, 10, 20, 40, 60>>
ExpectedDelay(n) ==
    IF n >= Len(BackoffDelays) THEN BackoffDelays[Len(BackoffDelays)]
    ELSE BackoffDelays[n]

\* C7: in a loop none of whose attempts has reached Streaming, the delay
\* slept after the n-th failed attempt is the n-th of 5, 10, 20, 40, 60,
\* 60, ...; and the delay is always one of 5, 10, 20, 40, 60.
C7_BackoffSequence ==
    /\ retry_delay \in {BackoffDelays[i] : i \in 1..Len(BackoffDelays)}
    /\ (_sse_task = "sleeping" /\ ~ever_streamed)
       => retry_delay = ExpectedDelay(fails)

\* The reader sleeps 60 seconds after the sixth failure in a row.
C7_Witness ==
    /\ _sse_task = "sleeping"
    /\ ~ever_streamed
    /\ fails = 6
    /\ retry_delay = 60

\* C8: the delay slept when an attempt that reached Streaming ends is 5.
C8_StreamingResetsBackoff ==
    (_sse_task = "sleeping" /\ reached_streaming)
    => retry_delay = InitialRetryDelay

\* C9: once the whole body has arrived, the events handed on are those of
\* the body handled as a single chunk.
C9_ChunkingIrrelevant ==
    pos = Len(content)
    => applied = FeedChunk(<<>>, <<>>, content).applied

\* C10: a handled zone or device event, and a completed poll, notify the
\* listeners exactly once, with the resulting table; a keepalive, an event of
\* unknown type and a skipped line change nothing and notify nobody.
C10_OneNotificationPerMerge ==
    [][/\ \A line \in MergeLines :
             SseChunk(line)
             => IF LineIsProcessed(line) /\ line.ev.type \in {"zone", "device"}
                THEN notif' = <<data'>>
                ELSE data' = data /\ notif' = <<>>
       /\ \A r \in Responses : PollDone(r) => notif' = <<data'>>]_vars

\* A device event has replaced the Kitchen's state and the listeners were
\* handed that table, once.
C10_Witness ==
    /\ last.act = "sse_device"
    /\ notif = <<data>>
    /\ \E i \in 1..Len(data) :
           data[i].zone_name = "Kitchen" /\ data[i].state = EvDevKitchen.state

\* Whether the zone carries the name the device event names.
NamedBy(zone, ev) ==
    ev.zone_name # NoneS /\ ZoneNameMatches(zone, ev.zone_name)

\* C11: a device event changes the table only by replacing the state of a
\* zone whose name is the event's zone_name; ids, names and the number of
\* entries stay, and when no zone has that name, or the event carries no
\* zone_name, the table is unchanged.
C11_DeviceEventFrame ==
    [][\A line \in MergeLines :
          ( /\ SseChunk(line)
            /\ LineIsProcessed(line)
            /\ line.ev.type = "device" )
          => LET cur == DataOrEmpty(data)
                 ev == line.ev
             IN  /\ Len(data') = Len(cur)
                 /\ \A i \in 1..Len(cur) :
                        \/ data'[i] = cur[i]
                        \/ /\ NamedBy(cur[i], ev)
                           /\ data'[i] = [cur[i] EXCEPT !.state = ev.state]
                 /\ (\A i \in 1..Len(cur) : ~NamedBy(cur[i], ev))
                    => data' = cur]_vars

\* C12: a command never writes the table or notifies by itself, and a POST
\* answered with a status other than 200 ends the command with no refresh
\* requested.
C12_CommandsLeaveTable ==
    [][/\ \A e \in EntityIds :
             CmdCall(e) => (data' = data /\ notif' = <<>> /\ poll' = poll)
       /\ \A success \in SuccessStatuses, status \in PostStatuses :
             CmdPosted(success, status)
             => /\ data' = data
                /\ notif' = <<>>
                /\ poll' = poll
                /\ status # 200 => cmd' = NoCmd
       /\ CmdSettled => (data' = data /\ notif' = <<>>)]_vars

\* A POST was answered and the command has returned without a refresh; the
\* table holds the zones of the last poll.
C12_Witness ==
    /\ last.act = "cmd_posted"
    /\ cmd = NoCmd
    /\ poll.pc = "idle"
    /\ data = <<ZLounge22, ZKitchen>>

\* C13: a POST answered with HTTP 200 is followed by the settle delay and one
\* refresh, and the command returns only in the step that completes that
\* refresh, with the table the poll returned.
C13_CommandAwaitsRefresh ==
    [][/\ \A success \in SuccessStatuses :
             CmdPosted(success, 200) => cmd'.pc = "settle"
       /\ CmdSettled => (cmd'.pc = "refreshing" /\ poll'.pc = "inflight")
       /\ (cmd.pc = "refreshing" /\ cmd'.pc # "refreshing")
          => \E r \in Responses :
                 PollDone(r) /\ data' = _async_update_data(data, r)]_vars

\* The index of the entry the entity with this id reads (0 when none): the
\* first entry whose thermostat_id or zone_id is the id.
EntityIndex(d, id) ==
    LET cur == DataOrEmpty(d)
    IN  FirstIndex([k \in 1..Len(cur) |->
                       cur[k].thermostat_id = id \/ cur[k].zone_id = id])

\* A zone event with an id, as the line of a step.
IsZoneEventWithId(line) ==
    LineIsProcessed(line) /\ line.ev.type = "zone" /\ line.ev.zone_id # None

\* C14: a zone event with id X, applied to a table with an entry whose
\* zone_id or thermostat_id is X, updates that entry in place (no second
\* entry), and the entity's lookup by X finds that entry, and no other entry
\* carries X under either key, after the event as before it.
C14_AliasLookup ==
    [][\A line \in MergeLines :
          ( /\ SseChunk(line)
            /\ IsZoneEventWithId(line)
            /\ EntityIndex(data, line.ev.zone_id) # 0 )
          => LET X == line.ev.zone_id
                 i == EntityIndex(data, X)
             IN  /\ Len(data') = Len(data)
                 /\ EntityIndex(data', X) = i
                 /\ data'[i].zone_id = X
                 /\ data'[i].thermostat_id = X
                 /\ \A j \in 1..Len(data') :
                        (data'[j].zone_id = X \/ data'[j].thermostat_id = X)
                        => j = i]_vars

\* The Kitchen, polled under thermostat_id, was updated in place by a zone
\* event with zone_id 2.
C14_Witness ==
    /\ last.act = "sse_zone"
    /\ data = <<ZLounge22, UpdatedZone(ZKitchen, EvKitchenFull)>>

\* The ids an entry carries, under either key.
IdsOf(zone) == {zone.zone_id, zone.thermostat_id} \ {None}

\* C15: no two entries of the table carry the same id.
C15_UniqueIds ==
    \A i, j \in 1..Len(data) :
        i # j => IdsOf(data[i]) \cap IdsOf(data[j]) = {}

\* Zone events have updated the Lounge and the Kitchen in place: two entries,
\* each with its own id under both keys.
C15_Witness ==
    /\ Len(data) = 2
    /\ IdsOf(data[1]) = {1}
    /\ IdsOf(data[2]) = {2}
    /\ data[1].thermostat_id = 1
    /\ data[2].zone_id = 2

\* C16: a zone event without zone_id adds no entry and changes neither the
\* ids nor the state of any entry.
C16_NoIdNotStored ==
    [][\A line \in MergeLines :
          ( /\ SseChunk(line)
            /\ LineIsProcessed(line)
            /\ line.ev.type = "zone"
            /\ line.ev.zone_id = None )
          => /\ Len(data') = Len(data)
             /\ \A i \in 1..Len(data) :
                    /\ data'[i].zone_id = data[i].zone_id
                    /\ data'[i].thermostat_id = data[i].thermostat_id
                    /\ data'[i].state = data[i].state]_vars

\* C17: the table a successful poll result gives is the table the same
\* result gives when applied to it once more.
C17_PollIdempotent ==
    \A r \in Responses :
        IsZoneListResp(r)
        => _async_update_data(_async_update_data(data, r), r)
           = _async_update_data(data, r)

\* A poll of two zones has completed over a table that held other values.
C17_Witness ==
    /\ last.act = "poll_list"
    /\ last.raced
    /\ data = <<ZLounge22, ZKitchen>>

\* C18: a zone event that matches an entry keeps the entry's name and
\* zone_name when it carries no zone_name, and sets both to its zone_name
\* when it carries one.
C18_NameFallback ==
    [][\A line \in MergeLines :
          ( /\ SseChunk(line)
            /\ LineIsProcessed(line)
            /\ line.ev.type = "zone"
            /\ EntityIndex(data, line.ev.zone_id) # 0 )
          => LET i == EntityIndex(data, line.ev.zone_id)
                 n == line.ev.zone_name
             IN  IF n = NoneS
                 THEN /\ data'[i].name = data[i].name
                      /\ data'[i].zone_name = data[i].zone_name
                 ELSE /\ data'[i].name = n
                      /\ data'[i].zone_name = n]_vars

\* The Lounge was renamed by an event and a later event without a name has
\* switched it off: the new name is still there.
C18_Witness ==
    /\ last.act = "sse_zone"
    /\ \E i \in 1..Len(data) :
           /\ data[i].zone_id = 1
           /\ data[i].name = "Living room"
           /\ data[i].state = EvLoungeOff.state

\* C19: a zone event whose id no entry carries appends one entry with the
\* event's id, name and state; the entries before it are unchanged.
C19_UnknownZoneAppended ==
    [][\A line \in MergeLines :
          ( /\ SseChunk(line)
            /\ IsZoneEventWithId(line)
            /\ EntityIndex(data, line.ev.zone_id) = 0 )
          => LET ev == line.ev
             IN  /\ Len(data') = Len(data) + 1
                 /\ \A i \in 1..Len(data) : data'[i] = data[i]
                 /\ IdsOf(data'[Len(data')]) = {ev.zone_id}
                 /\ data'[Len(data')].name = ev.zone_name
                 /\ data'[Len(data')].state = ev.state]_vars

\* The Kitchen, which the poll did not list, was appended after the Lounge.
C19_Witness ==
    /\ last.act = "sse_zone"
    /\ data = <<ZLounge, AddedZone(EvKitchenFull)>>

\* The mode the claim gives for a mode value of the state.
ExpectedMode(m) ==
    CASE m = 1 -> "heat"
      [] m = 3 -> "auto"
      [] OTHER -> "off"

C21_SleepBeforeReconnect ==
    [][(_sse_task' = "connecting" /\ _sse_task # "connecting")
       => \/ _sse_task = "start"
          \/ _sse_task = "sleeping" /\ retry_delay >= InitialRetryDelay]_vars

\* C22: the reader task ends only after async_shutdown was called on it; as
\* long as async_shutdown is not called, a sleeping reader comes to a new
\* connection attempt and a connecting reader comes to Streaming.
C22_ReaderKeepsTrying ==
    /\ [](_sse_task = "done" => stop_at # "none")
    /\ (_sse_task = "sleeping") ~> (_sse_task = "connecting" \/ shutdown # "no")
    /\ (_sse_task = "connecting") ~> (_sse_task = "streaming" \/ shutdown # "no")

\* The reader streams after so many failures that its delay stood at the
\* maximum.
C22_Witness ==
    /\ _sse_task = "streaming"
    /\ retry_delay = MaxRetryDelay
    /\ shutdown = "no"

\* C23: a "data: " line whose payload json.loads rejects, or that is JSON but
\* no object, is skipped: the table is the same object with the same value,
\* no listener is notified, and the reader is still streaming, running and
\* not cancelled, so the next line of the same connection is handled.
C23_MalformedLineSkipped ==
    [][\A line \in MergeLines :
          (/\ line.kind \in {"badjson", "nondict"}
           /\ _sse_running
           /\ SseChunk(line))
          => /\ data' = data
             /\ notif' = <<>>
             /\ _sse_task' = "streaming"
             /\ _sse_running'
             /\ ~cancel_requested'
             /\ retry_delay' = retry_delay]_vars

C23_Witness ==
    /\ last = Did("sse_malformed")
    /\ _sse_task = "streaming"
    /\ \E i \in 1..Len(data) : data[i].state = EvLoungeOff.state

\* The table after the events evs have been merged one after the other, from
\* the first to the last, into the table d.
RECURSIVE FoldEvents(_, _)
FoldEvents(d, evs) ==
    IF evs = <<>> THEN d
    ELSE FoldEvents(IF EventIsMerged(Head(evs))
                    THEN MergedTable(d, Head(evs)) ELSE d,
                    Tail(evs))

\* C24: within one connection the table is the left-to-right fold of the
\* events handed to _process_sse_event over the table the connection started
\* from, and when the last line was a merged event its listeners have been
\* notified with exactly that table before the next line is looked at.
C24_EventsFoldInOrder ==
    /\ data = FoldEvents(StreamFirstList, applied)
    /\ last.act \in {"sse_zone", "sse_device"} => notif = <<data>>

\* The device event for the Kitchen came before the zone event that adds the
\* Kitchen: in this order the device event changes nothing.
C24_Witness ==
    /\ Len(applied) >= 2
    /\ applied[1] = EvDevKitchen
    /\ applied[2] = EvKitchenFull
    /\ Len(data) = 2
    /\ data[2].state = EvKitchenFull.state

\* C25: a list object handed to a listener keeps the value it had when it
\* was handed over, whatever is merged afterwards; while it still is
\* self.data it is the published table.
C25_SnapshotNeverMutated ==
    /\ held.now = held.at_handover
    /\ held.is_current => data = held.now

\* A listener holds the first list, and a later event has changed the table.
C25_Witness ==
    /\ held.at_handover = StreamFirstList
    /\ ~held.is_current
    /\ data # held.at_handover
    /\ Len(applied) >= 1

\* C26: the id a command puts in the request path is the id of its entity's
\* zone, the one the entity finds its entry by, whichever key the poll
\* listed it under.
C26_CommandUsesCanonicalId ==
    cmd.pc = "posting" => cmd.zone_id = cmd.ent

\* C27: once async_shutdown has returned for a coordinator whose reader had
\* not been started, there is no reader task, whenever the host-started
\* listener fires.
C27_StopWinsOverDeferredStart ==
    (shutdown = "returned" /\ stop_at = "none") => _sse_task = "none"

\* C28: a poll that fails (an exception, or a status other than 200) after a
\* zone or device event was merged while its request was in flight leaves
\* the table as the events made it, and hands that table to the listeners.
C28_FailedPollKeepsEvents ==
    [][\A r \in {RespException, RespStatus500} :
          (poll.raced /\ PollDone(r))
          => /\ data' = data
             /\ notif' = <<data>>]_vars

\* A poll failed after the Lounge's "off" event was merged during it, and
\* the Lounge is still off.
C28_Witness ==
    /\ last = Step("poll_failed", TRUE)
    /\ \E i \in 1..Len(data) :
          data[i].zone_id = 1 /\ data[i].state = EvLoungeOff.state

\* C29: a step that leaves a new, not yet run task in _sse_task replaces no
\* task or a task that is done, never a live one, however often and whenever
\* start is called; a call that finds a live task changes neither the task
\* nor _sse_running.
C29_OneReaderTask ==
    [][/\ (_sse_task' = "start" /\ _sse_task # "start")
          => _sse_task \in {"none", "done"}
       /\ (_start_sse /\ TaskLive(_sse_task))
          => (_sse_task' = _sse_task /\ _sse_running' = _sse_running)]_vars

\* Start was called while the reader was streaming, and the reader streams on.
C29_Witness ==
    /\ last = Did("start_sse")
    /\ _sse_task = "streaming"
    /\ listener = "fired"

============================================================================
